---- MODULE Spec2Model ----
(***************************************************************************)
(* Model of dll-rs: DoublyLinkedList<T> (src/src/dll.rs).                  *)
(*                                                                         *)
(* The heap is the sequence `nodes`: Node::new appends a node, and a node  *)
(* is referred to by its index.  Each node carries the strong count of its *)
(* Rc.  Option<X> is a sequence of length 0 (None) or 1 (Some(x)).         *)
(***************************************************************************)
EXTENDS Integers, Sequences, FiniteSets, TLC

\* ------------------------------------------------------------------ bounds
MaxOps == 7          \* calls the owner makes before the list is dropped

\* T carries no trait bound, so the list can neither compare nor inspect a
\* value: the k-th push of a run pushes the value k, and all values of a run
\* are distinct, the input on which any reordering or loss shows.
Values == 1..MaxOps

\* usize of the `len` field; the pointer width is the target's (16 here)
UsizeBits == 16
UsizeMod  == 2^UsizeBits

VARIABLES
    head,       \* DoublyLinkedList.head : Link<T>
    tail,       \* DoublyLinkedList.tail : Link<T>
    len,        \* DoublyLinkedList.len  : usize
    nodes,      \* heap of Rc<RefCell<Node<T>>> allocations
    released,   \* log of node releases: node, its `next` then, chain depth
    panic,      \* an unwrap() / borrow_mut() / overflow check has panicked
    underflow,  \* `len -= 1` was executed with len = 0
    pc,         \* "live", "dropping" (inside Drop::drop), "dropped"
    hist,       \* calls made by the owner, with their results
    ret,        \* result of the last pop
    S,          \* the abstract sequence the list stands for
    expect,     \* result the abstract sequence gives for the last pop
    dropLen,    \* len() when drop began
    dropSome,   \* pop_front calls of the drop loop that returned Some
    dropNone,   \* pop_front calls of the drop loop that returned None
    borrows,    \* nodes whose RefCell is mutably borrowed right now
    nested,     \* log of borrow_mut calls made while another borrow is held
    unwraps     \* log of Rc::try_unwrap calls: node, its strong count then

vars == <<head, tail, len, nodes, released, panic, underflow, pc, hist, ret,
          S, expect, dropLen, dropSome, dropNone, borrows, nested, unwraps>>

\* ------------------------------------------------------------------ Option
None       == <<>>
Some(x)    == <<x>>
IsSome(o)  == o # <<>>
Unwrap(o)  == o[1]

\* ------------------------------------------------------------------ memory
\* The part of the state the methods of the list read and write.
Self ==
    [head |-> head, tail |-> tail, len |-> len, nodes |-> nodes,
     released |-> released, panic |-> panic, underflow |-> underflow,
     borrows |-> borrows, nested |-> nested, unwraps |-> unwraps]

\* Node::new(val): a fresh allocation, strong count 1, both links absent.
Node_new(m, val) ==
    [m EXCEPT !.nodes = Append(@, [val |-> val, next |-> None, prev |-> None,
                                   strong |-> 1])]

\* Rc::clone(&n)
Rc_clone(m, n) == [m EXCEPT !.nodes[n].strong = @ + 1]

\* Weak::upgrade: Some(strong handle) while the node is alive, else None.
Weak_upgrade(m, w) ==
    IF IsSome(w) /\ m.nodes[Unwrap(w)].strong > 0 THEN Some(Unwrap(w)) ELSE None

\* Drop of one Rc handle to node n.  When the strong count reaches zero the
\* Node is dropped, and dropping the Node drops its `next` handle in turn.
RECURSIVE Rc_drop(_, _, _)
Rc_drop(m, n, depth) ==
    LET dec == [m EXCEPT !.nodes[n].strong = @ - 1]
    IN  IF dec.nodes[n].strong > 0
        THEN dec
        ELSE LET nx  == dec.nodes[n].next
                 rel == [dec EXCEPT
                           !.released = @ \cup {[node |-> n, next |-> nx,
                                                 depth |-> depth]},
                           !.nodes[n].next = None,
                           !.nodes[n].prev = None]
             IN  IF IsSome(nx) THEN Rc_drop(rel, Unwrap(nx), depth + 1)
                 ELSE rel

\* Drop of an Option<Rc<..>> value.
Link_drop(m, link) == IF IsSome(link) THEN Rc_drop(m, Unwrap(link), 1) ELSE m

\* Rc::try_unwrap(n).ok().unwrap().into_inner().val
\* Succeeds only when n has exactly one strong handle; the Node is moved out,
\* its value is returned and the rest of the Node (next, prev) is dropped.
Rc_try_unwrap_val(m, n) ==
    LET seen == [m EXCEPT !.unwraps = @ \cup {[node |-> n,
                                               strong |-> m.nodes[n].strong]}]
    IN  IF m.nodes[n].strong # 1
        THEN [m |-> [seen EXCEPT !.panic = TRUE], ret |-> None]
        ELSE [m |-> Rc_drop(seen, n, 1), ret |-> Some(m.nodes[n].val)]

\* RefCell::borrow_mut on node n: panics (BorrowMutError) when n is already
\* borrowed; a borrow taken while others are held is logged with each of them.
RefCell_borrow_mut(m, n) ==
    [m EXCEPT !.nested = @ \cup {[outer |-> o, inner |-> n] : o \in m.borrows},
              !.panic = @ \/ (n \in m.borrows),
              !.borrows = @ \cup {n}]

\* Drop of the RefMut of node n: the borrow ends.
RefMut_drop(m, n) == [m EXCEPT !.borrows = @ \ {n}]

\* Mutant of len_inc: the push forgets `self.len += 1`.
len_inc_forgotten(m) == m

\* self.len += 1
len_inc(m) == [m EXCEPT !.len = (@ + 1) % UsizeMod]

\* self.len -= 1
len_dec(m) ==
    [m EXCEPT !.len = (@ - 1) % UsizeMod,
              !.underflow = @ \/ (m.len = 0)]

\* --------------------------------------------------------------- operations
\* DoublyLinkedList::new()
new ==
    [head |-> None, tail |-> None, len |-> 0, nodes |-> <<>>,
     released |-> {}, panic |-> FALSE, underflow |-> FALSE,
     borrows |-> {}, nested |-> {}, unwraps |-> {}]

\* self.len
len_of(m) == m.len

\* Mutant of is_empty: the comparison is inverted.
is_empty_inverted(m) == m.len # 0

\* self.len == 0
is_empty(m) == m.len = 0

\* Mutant of push_front_some: the old head's back-reference is not set.
push_front_some_no_prev(m, new_head, old_head) ==
    [m EXCEPT !.nodes[new_head].next = Some(old_head),
              !.head = Some(new_head)]

\* Mutant of push_front_some: the back-reference is made from the wrong
\* handle, Rc::downgrade(&old_head).
push_front_some_self_prev(m, new_head, old_head) ==
    [m EXCEPT !.nodes[old_head].prev = Some(old_head),
              !.nodes[new_head].next = Some(old_head),
              !.head = Some(new_head)]

\* Mutant of push_front_some: the back-reference is a strong handle,
\* Rc::clone(&new_head) in place of Rc::downgrade(&new_head).
push_front_some_strong_prev(m, new_head, old_head) ==
    [Rc_clone(m, new_head) EXCEPT !.nodes[old_head].prev = Some(new_head),
                                  !.nodes[new_head].next = Some(old_head),
                                  !.head = Some(new_head)]

\* Mutant of push_front_some: the tail field is written as in the None arm.
push_front_some_sets_tail(m, new_head, old_head) ==
    LET m1 == [Rc_clone(m, new_head) EXCEPT
                  !.nodes[old_head].prev = Some(new_head),
                  !.nodes[new_head].next = Some(old_head),
                  !.head = Some(new_head),
                  !.tail = Some(new_head)]
    IN  Link_drop(m1, m.tail)

\* push_front, arm Some(old_head): the list was not empty.
push_front_some(m, new_head, old_head) ==
    LET b1 == RefCell_borrow_mut(m, old_head)
        m1 == RefMut_drop([b1 EXCEPT !.nodes[old_head].prev = Some(new_head)],
                          old_head)
        b2 == RefCell_borrow_mut(m1, new_head)
        m2 == RefMut_drop([b2 EXCEPT !.nodes[new_head].next = Some(old_head)],
                          new_head)
    IN  [m2 EXCEPT !.head = Some(new_head)]

\* Mutant of push_front_none: the tail field is not set.
push_front_none_no_tail(m, new_head) ==
    [m EXCEPT !.head = Some(new_head)]

\* push_front, arm None: the list was empty.
push_front_none(m, new_head) ==
    [Rc_clone(m, new_head) EXCEPT !.tail = Some(new_head),
                                  !.head = Some(new_head)]

push_front(m, val) ==
    LET m1       == Node_new(m, val)
        new_head == Len(m1.nodes)
        taken    == m1.head
        m2       == [m1 EXCEPT !.head = None]
        m3       == IF IsSome(taken)
                    THEN push_front_some(m2, new_head, Unwrap(taken))
                    ELSE push_front_none(m2, new_head)
    IN  len_inc(m3)

\* Mutant of push_back_some: the old tail's forward link is not set.
push_back_some_unlinked(m, new_tail, old_tail) ==
    Rc_drop([m EXCEPT !.nodes[new_tail].prev = Some(old_tail),
                      !.tail = Some(new_tail)], old_tail, 1)

\* Mutant of push_back_some: the new tail's back-reference is not set.
push_back_some_no_prev(m, new_tail, old_tail) ==
    Rc_drop([Rc_clone(m, new_tail) EXCEPT
                !.nodes[old_tail].next = Some(new_tail),
                !.tail = Some(new_tail)], old_tail, 1)

\* push_back, arm Some(old_tail): the list was not empty.  The local handle
\* old_tail is dropped at the end of the arm.
push_back_some(m, new_tail, old_tail) ==
    LET b1 == RefCell_borrow_mut(Rc_clone(m, new_tail), old_tail)
        m1 == RefMut_drop([b1 EXCEPT !.nodes[old_tail].next = Some(new_tail)],
                          old_tail)
        b2 == RefCell_borrow_mut(m1, new_tail)
        m2 == RefMut_drop([b2 EXCEPT !.nodes[new_tail].prev = Some(old_tail)],
                          new_tail)
        linked == [m2 EXCEPT !.tail = Some(new_tail)]
    IN  Rc_drop(linked, old_tail, 1)

\* Mutant of push_back_none: the head field is not set.
push_back_none_no_head(m, new_tail) ==
    [m EXCEPT !.tail = Some(new_tail)]

\* push_back, arm None: the list was empty.
push_back_none(m, new_tail) ==
    [Rc_clone(m, new_tail) EXCEPT !.head = Some(new_tail),
                                  !.tail = Some(new_tail)]

push_back(m, val) ==
    LET m1       == Node_new(m, val)
        new_tail == Len(m1.nodes)
        taken    == m1.tail
        m2       == [m1 EXCEPT !.tail = None]
        m3       == IF IsSome(taken)
                    THEN push_back_some(m2, new_tail, Unwrap(taken))
                    ELSE push_back_none(m2, new_tail)
    IN  len_inc(m3)

\* Mutant of pop_front_some: the new head's back-reference is not taken.
pop_front_some_keeps_prev(m, new_head) ==
    [m EXCEPT !.head = Some(new_head)]

\* Mutant of pop_front_some: the back-reference is taken through the wrong
\* handle, old_head.borrow_mut(), while old_head is still borrowed.
pop_front_some_borrows_old(m, new_head) ==
    LET old_head == CHOOSE o \in m.borrows : TRUE
        b        == RefCell_borrow_mut(m, old_head)
        m1       == RefMut_drop([b EXCEPT !.nodes[old_head].prev = None],
                                old_head)
    IN  [m1 EXCEPT !.head = Some(new_head)]

\* pop_front, arm Some(new_head): the list has more than one element.
pop_front_some(m, new_head) ==
    LET b  == RefCell_borrow_mut(m, new_head)
        m1 == RefMut_drop([b EXCEPT !.nodes[new_head].prev = None], new_head)
    IN  [m1 EXCEPT !.head = Some(new_head)]

\* Mutant of pop_front_none: the tail field is not cleared.
pop_front_none_keeps_tail(m) == m

\* pop_front, arm None: the list is now empty; the taken tail is dropped.
pop_front_none(m) ==
    Link_drop([m EXCEPT !.tail = None], m.tail)

\* The closure of pop_front, run on the taken head.  The RefMut of old_head
\* made in the scrutinee lives to the end of the match.
pop_front_body(m, old_head) ==
    LET b   == RefCell_borrow_mut(m, old_head)
        nxt == b.nodes[old_head].next
        m1  == [b EXCEPT !.nodes[old_head].next = None]
        m2  == IF IsSome(nxt) THEN pop_front_some(m1, Unwrap(nxt))
               ELSE pop_front_none(m1)
        m3  == RefMut_drop(m2, old_head)
    IN  Rc_try_unwrap_val(len_dec(m3), old_head)

\* Mutant of pop_front: `self.len -= 1` is run outside the closure, so on
\* the empty list as well.
pop_front_dec_on_empty(m) ==
    IF IsSome(m.head)
    THEN pop_front_body([m EXCEPT !.head = None], Unwrap(m.head))
    ELSE [m |-> len_dec(m), ret |-> None]

pop_front(m) ==
    IF IsSome(m.head)
    THEN pop_front_body([m EXCEPT !.head = None], Unwrap(m.head))
    ELSE [m |-> m, ret |-> None]

\* Mutant of pop_back_some: the new tail's forward link is not taken.
pop_back_some_keeps_next(m, new_tail) ==
    [Rc_clone(m, new_tail) EXCEPT !.tail = Some(new_tail)]

\* pop_back, arm Some(new_tail): the list has more than one element.  The
\* upgrade made a strong handle; the link taken from new_tail.next is dropped.
pop_back_some(m, new_tail) ==
    LET up == Rc_clone(m, new_tail)
        b  == RefCell_borrow_mut(up, new_tail)
        nx == b.nodes[new_tail].next
        m1 == Link_drop(RefMut_drop([b EXCEPT !.nodes[new_tail].next = None],
                                    new_tail), nx)
    IN  [m1 EXCEPT !.tail = Some(new_tail)]

\* Mutant of pop_back_none: the head field is not cleared.
pop_back_none_keeps_head(m) == m

\* pop_back, arm None: the list is now empty; the taken head is dropped.
pop_back_none(m) ==
    Link_drop([m EXCEPT !.head = None], m.head)

\* The closure of pop_back, run on the taken tail.  The RefMut of old_tail
\* made in the scrutinee lives to the end of the match.
pop_back_body(m, old_tail) ==
    LET b         == RefCell_borrow_mut(m, old_tail)
        weak_prev == b.nodes[old_tail].prev
        m1        == [b EXCEPT !.nodes[old_tail].prev = None]
        up        == Weak_upgrade(m1, weak_prev)
        m2        == IF IsSome(up) THEN pop_back_some(m1, Unwrap(up))
                     ELSE pop_back_none(m1)
        m3        == RefMut_drop(m2, old_tail)
    IN  Rc_try_unwrap_val(len_dec(m3), old_tail)

pop_back(m) ==
    IF IsSome(m.tail)
    THEN pop_back_body([m EXCEPT !.tail = None], Unwrap(m.tail))
    ELSE [m |-> m, ret |-> None]

\* Drop glue that runs after Drop::drop returns: the fields head and tail
\* are dropped in declaration order.
drop_fields(m) ==
    LET m1 == Link_drop([m EXCEPT !.head = None], m.head)
    IN  Link_drop([m1 EXCEPT !.tail = None], m1.tail)

\* Mutant of drop_iter: `if` in place of `while`, a single pop.
drop_iter_once(m) ==
    LET r == pop_front(m)
    IN  [m |-> drop_fields(r.m), ret |-> r.ret, done |-> TRUE]

\* Mutant of drop_iter: no loop at all, the derived field-by-field drop.
drop_iter_derived(m) ==
    [m |-> drop_fields(m), ret |-> None, done |-> TRUE]

\* One iteration of `while self.pop_front().is_some() {}`.
drop_iter(m) ==
    LET r == pop_front(m)
    IN  IF IsSome(r.ret) \/ r.m.panic
        THEN [m |-> r.m, ret |-> r.ret, done |-> FALSE]
        ELSE [m |-> drop_fields(r.m), ret |-> r.ret, done |-> TRUE]

\* ------------------------------------------------------- abstract sequence
\* What the tests' comments track ("list: [1, 2, 3]"): the sequence the
\* list stands for, and the result each pop must give on it.
abs_push_front(s, v) == <<v>> \o s
abs_push_back(s, v)  == Append(s, v)
abs_pop_front(s) ==
    IF s = <<>> THEN [s |-> s, ret |-> None]
    ELSE [s |-> Tail(s), ret |-> Some(Head(s))]
abs_pop_back(s) ==
    IF s = <<>> THEN [s |-> s, ret |-> None]
    ELSE [s |-> SubSeq(s, 1, Len(s) - 1), ret |-> Some(s[Len(s)])]

\* One entry of hist.
Call(op, arg, r) == [op |-> op, arg |-> arg, ret |-> r]

\* ------------------------------------------------------------------ actions
Install(m) ==
    /\ head' = m.head
    /\ tail' = m.tail
    /\ len' = m.len
    /\ nodes' = m.nodes
    /\ released' = m.released
    /\ panic' = m.panic
    /\ underflow' = m.underflow
    /\ borrows' = m.borrows
    /\ nested' = m.nested
    /\ unwraps' = m.unwraps

Init ==
    /\ head = new.head
    /\ tail = new.tail
    /\ len = new.len
    /\ nodes = new.nodes
    /\ released = new.released
    /\ panic = new.panic
    /\ underflow = new.underflow
    /\ borrows = new.borrows
    /\ nested = new.nested
    /\ unwraps = new.unwraps
    /\ pc = "live"
    /\ hist = <<>>
    /\ ret = None
    /\ S = <<>>
    /\ expect = None
    /\ dropLen = 0
    /\ dropSome = 0
    /\ dropNone = 0

\* The value the owner pushes next.
Fresh == {v \in Values : v = Len(nodes) + 1}

Callable == pc = "live" /\ ~panic /\ Len(hist) < MaxOps

PushFront(v) ==
    /\ Callable
    /\ Install(push_front(Self, v))
    /\ hist' = Append(hist, Call("push_front", Some(v), None))
    /\ S' = abs_push_front(S, v)
    /\ ret' = None
    /\ expect' = None
    /\ UNCHANGED <<pc, dropLen, dropSome, dropNone>>

PushBack(v) ==
    /\ Callable
    /\ Install(push_back(Self, v))
    /\ hist' = Append(hist, Call("push_back", Some(v), None))
    /\ S' = abs_push_back(S, v)
    /\ ret' = None
    /\ expect' = None
    /\ UNCHANGED <<pc, dropLen, dropSome, dropNone>>

PopFront ==
    /\ Callable
    /\ LET r == pop_front(Self)
           a == abs_pop_front(S)
       IN  /\ Install(r.m)
           /\ ret' = r.ret
           /\ hist' = Append(hist, Call("pop_front", None, r.ret))
           /\ S' = a.s
           /\ expect' = a.ret
    /\ UNCHANGED <<pc, dropLen, dropSome, dropNone>>

PopBack ==
    /\ Callable
    /\ LET r == pop_back(Self)
           a == abs_pop_back(S)
       IN  /\ Install(r.m)
           /\ ret' = r.ret
           /\ hist' = Append(hist, Call("pop_back", None, r.ret))
           /\ S' = a.s
           /\ expect' = a.ret
    /\ UNCHANGED <<pc, dropLen, dropSome, dropNone>>

\* The owner lets the list go out of scope: Drop::drop is entered.
DropBegin ==
    /\ pc = "live"
    /\ ~panic
    /\ pc' = "dropping"
    /\ dropLen' = len_of(Self)
    /\ UNCHANGED <<head, tail, len, nodes, released, panic, underflow, hist,
                   ret, S, expect, dropSome, dropNone, borrows, nested,
                   unwraps>>

\* One iteration of the loop of Drop::drop; the last one ends the drop.
DropIter ==
    /\ pc = "dropping"
    /\ ~panic
    /\ LET r == drop_iter(Self)
           a == abs_pop_front(S)
       IN  /\ Install(r.m)
           /\ ret' = r.ret
           /\ S' = a.s
           /\ expect' = a.ret
           /\ pc' = IF r.done THEN "dropped" ELSE "dropping"
           /\ dropSome' = IF IsSome(r.ret) THEN dropSome + 1 ELSE dropSome
           /\ dropNone' = IF IsSome(r.ret) THEN dropNone ELSE dropNone + 1
    /\ UNCHANGED <<hist, dropLen>>

Next ==
    \/ \E v \in Fresh : PushFront(v)
    \/ \E v \in Fresh : PushBack(v)
    \/ PopFront
    \/ PopBack
    \/ DropBegin
    \/ DropIter

Spec == Init /\ [][Next]_vars

\* ------------------------------------------------------------------- shape
TypeOK ==
    /\ pc \in {"live", "dropping", "dropped"}
    /\ len \in 0..(UsizeMod - 1)
    /\ Len(head) <= 1 /\ Len(tail) <= 1
    /\ \A i \in 1..Len(nodes) :
          /\ nodes[i].val \in Values
          /\ nodes[i].strong \in 0..2
          /\ Len(nodes[i].next) <= 1 /\ Len(nodes[i].prev) <= 1

\* ----------------------------------------------------------- observations
\* The nodes met by following `next` from head (at most fuel of them).
RECURSIVE Forward(_, _)
Forward(link, fuel) ==
    IF ~IsSome(link) \/ fuel = 0 THEN <<>>
    ELSE <<Unwrap(link)>> \o Forward(nodes[Unwrap(link)].next, fuel - 1)

ForwardNodes == Forward(head, Len(nodes) + 1)

\* The values read by following `next` from head.
ForwardVals == [i \in 1..Len(ForwardNodes) |-> nodes[ForwardNodes[i]].val]

\* hist[lo..hi] are all calls of op.
AllOp(lo, hi, op) == \A i \in lo..hi : hist[i].op = op

\* hist is n calls of pushOp followed by calls of popOp only.
PushedThenPopped(pushOp, popOp, n) ==
    /\ n <= Len(hist)
    /\ AllOp(1, n, pushOp)
    /\ AllOp(n + 1, Len(hist), popOp)

NumPushes   == Cardinality({i \in 1..Len(hist) : IsSome(hist[i].arg)})
NumPopsSome == Cardinality({i \in 1..Len(hist) : IsSome(hist[i].ret)})
LastCall    == hist[Len(hist)]

\* ------------------------------------------------------------------ claims

\* C1: the list refines the abstract sequence S: after every call the values
\* read by following next from head are S in order, and every pop returned
\* what the abstract pop on S returns (None on the empty sequence).
C1_RefinesSequence ==
    /\ ForwardVals = S
    /\ ret = expect

\* C1 witness: test_mixed_push_pop's calls, up to the pop_back that leaves
\* one element.
C1_Witness ==
    /\ Len(hist) = 5
    /\ [i \in 1..5 |-> hist[i].op] =
          <<"push_front", "push_back", "push_front", "pop_front", "pop_back">>
    /\ ret = Some(2)
    /\ S = <<1>>
    /\ ForwardVals = <<1>>

\* C2: same-end LIFO: n push_front then up to n+1 pop_front return the pushed
\* values newest first and then None; likewise push_back / pop_back; after
\* the n+1 pops len() is 0.
LifoAt(pushOp, popOp, n) ==
    LET k == Len(hist) - n
    IN  (PushedThenPopped(pushOp, popOp, n) /\ k <= n + 1) =>
           /\ \A j \in 1..k :
                 hist[n + j].ret = IF j <= n THEN hist[n + 1 - j].arg ELSE None
           /\ (k = n + 1 => len_of(Self) = 0)

C2_SameEndLifo ==
    \A n \in 0..Len(hist) :
        /\ LifoAt("push_front", "pop_front", n)
        /\ LifoAt("push_back", "pop_back", n)

\* C2 witness: three push_back, then four pop_back, the last returning None.
C2_Witness ==
    /\ Len(hist) = 7
    /\ PushedThenPopped("push_back", "pop_back", 3)
    /\ hist[4].ret = Some(3)
    /\ hist[7].ret = None
    /\ pc = "live"

\* C3: symmetry law: n push_front then up to n pop_back return the values in
\* insertion order, and so do n push_back then up to n pop_front.
FifoAt(pushOp, popOp, n) ==
    LET k == Len(hist) - n
    IN  (PushedThenPopped(pushOp, popOp, n) /\ k <= n) =>
           \A j \in 1..k : hist[n + j].ret = hist[j].arg

C3_OppositeEndFifo ==
    \A n \in 0..Len(hist) :
        /\ FifoAt("push_front", "pop_back", n)
        /\ FifoAt("push_back", "pop_front", n)

\* C3 witness: three push_front, then three pop_back returning 1, 2, 3.
C3_Witness ==
    /\ Len(hist) = 6
    /\ PushedThenPopped("push_front", "pop_back", 3)
    /\ hist[4].ret = Some(1)
    /\ hist[6].ret = Some(3)

\* C4: len() is the number of pushes minus the number of pops that returned
\* a value (those of the drop loop included), and `len -= 1` never ran with
\* len = 0.
C4_LenCounts ==
    /\ len_of(Self) = NumPushes - NumPopsSome - dropSome
    /\ ~underflow

\* C4 witness: pushes and successful pops happened, and so did a pop of the
\* empty list, which left len() at 0.
C4_Witness ==
    /\ NumPushes >= 2
    /\ NumPopsSome = NumPushes
    /\ Len(hist) > NumPushes + NumPopsSome
    /\ len_of(Self) = 0

\* C5: right after new() the list has no head, no tail and len() = 0, and in
\* every state is_empty() is true exactly when len() = 0.
C5_NewAndIsEmpty ==
    /\ (hist = <<>> /\ pc = "live") =>
          (~IsSome(head) /\ ~IsSome(tail) /\ len_of(Self) = 0)
    /\ is_empty(Self) <=> (len_of(Self) = 0)

\* C5 witness: a list emptied again by pops reports is_empty().
C5_Witness ==
    /\ pc = "live"
    /\ NumPushes >= 1
    /\ is_empty(Self)
    /\ S = <<>>

\* C6: a pop of an empty list returns None without panicking and changes
\* nothing: head and tail stay absent, len() stays 0, no node is touched.
PopOfEmptyIsNoOp ==
    (is_empty(Self) /\ (PopFront \/ PopBack)) =>
        /\ ret' = None
        /\ ~panic'
        /\ ~IsSome(head') /\ ~IsSome(tail')
        /\ len' = 0
        /\ nodes' = nodes
        /\ released' = released

C6_PopOfEmpty == [][PopOfEmptyIsNoOp]_vars

\* C6 witness: a list that held elements was emptied and then popped three
\* more times, from both ends, each pop returning None.
C6_Witness ==
    /\ Len(hist) >= 5
    /\ NumPushes >= 1
    /\ \A i \in (Len(hist) - 2)..Len(hist) : hist[i].op \in {"pop_front", "pop_back"}
                                             /\ hist[i].ret = None
    /\ hist[Len(hist) - 1].op # LastCall.op
    /\ ~IsSome(head) /\ ~IsSome(tail) /\ len = 0

\* C7: with exactly one element v in the list, pop_front returns v and
\* leaves the list empty, and so does pop_back.
PopOfSingleEmpties ==
    (len_of(Self) = 1 /\ IsSome(head) /\ (PopFront \/ PopBack)) =>
        /\ ret' = Some(nodes[Unwrap(head)].val)
        /\ ~IsSome(head') /\ ~IsSome(tail')
        /\ len' = 0

C7_SingleElement == [][PopOfSingleEmpties]_vars

\* C7 witness: a list that was longer is brought down to one element by
\* pops and that element is popped from the back.
C7_Witness ==
    /\ Len(hist) >= 4
    /\ NumPushes >= 2
    /\ LastCall.op = "pop_back"
    /\ IsSome(LastCall.ret)
    /\ hist[Len(hist) - 1].op = "pop_front"
    /\ IsSome(hist[Len(hist) - 1].ret)
    /\ ~IsSome(head) /\ ~IsSome(tail) /\ len = 0

\* C8: the drop loop makes exactly dropLen successful pops and then one pop
\* that returns None (every iteration takes len() down by one, so the loop is
\* bounded), and when it stops head and tail are absent, len() is 0 and no
\* node that was ever allocated still has a strong reference.
C8_Teardown ==
    /\ ~panic
    /\ pc = "dropping" =>
          /\ dropSome + len_of(Self) = dropLen
          /\ dropNone = 0
          /\ IsSome(head) <=> (len_of(Self) > 0)
    /\ pc = "dropped" =>
          /\ dropSome = dropLen
          /\ dropNone = 1
          /\ ~IsSome(head) /\ ~IsSome(tail) /\ len_of(Self) = 0
          /\ \A i \in 1..Len(nodes) : nodes[i].strong = 0
          /\ {r.node : r \in released} = 1..Len(nodes)

\* C8 witness: a list of three elements, after pops at both ends, was
\* dropped to the end.
C8_Witness ==
    /\ pc = "dropped"
    /\ dropLen = 3
    /\ dropSome = 3
    /\ NumPopsSome >= 2
    /\ Len(nodes) >= 5

\* C9: whenever a node is released its `next` is already absent, so no
\* release triggers the release of a successor: every release is at depth 1.
C9_IterativeRelease ==
    \A r \in released : ~IsSome(r.next) /\ r.depth = 1

\* C9 witness: nodes were released by pop_front, by pop_back and by the drop
\* of a list that still held three nodes.
C9_Witness ==
    /\ pc = "dropped"
    /\ dropLen >= 3
    /\ \E i, j \in 1..Len(hist) :
          /\ hist[i].op = "pop_front" /\ IsSome(hist[i].ret)
          /\ hist[j].op = "pop_back" /\ IsSome(hist[j].ret)
    /\ Cardinality(released) >= 5

\* C10: head is present iff tail is present iff len() > 0.
C10_BothEndsOrNone ==
    /\ IsSome(head) <=> IsSome(tail)
    /\ IsSome(head) <=> (len_of(Self) > 0)

\* C10 witness: after pops at both ends a list that still holds two
\* elements has both ends present.
C10_Witness ==
    /\ pc = "live"
    /\ len_of(Self) = 2
    /\ IsSome(head) /\ IsSome(tail)
    /\ head # tail
    /\ \E i, j \in 1..Len(hist) :
          /\ hist[i].op = "pop_front" /\ IsSome(hist[i].ret)
          /\ hist[j].op = "pop_back" /\ IsSome(hist[j].ret)

\* The nodes met by following `prev` from a link (at most fuel of them).
RECURSIVE Backward(_, _)
Backward(link, fuel) ==
    IF ~IsSome(link) \/ fuel = 0 THEN <<>>
    ELSE <<Unwrap(link)>> \o Backward(nodes[Unwrap(link)].prev, fuel - 1)

BackwardNodes == Backward(tail, Len(nodes) + 1)

\* The nodes of the list, and whether pops have happened at both ends.
ListNodes == {ForwardNodes[i] : i \in 1..Len(ForwardNodes)}
PoppedAtBothEnds ==
    \E i, j \in 1..Len(hist) :
        /\ hist[i].op = "pop_front" /\ IsSome(hist[i].ret)
        /\ hist[j].op = "pop_back" /\ IsSome(hist[j].ret)
PushedAtBothEnds ==
    \E i, j \in 1..Len(hist) :
        /\ hist[i].op = "push_front"
        /\ hist[j].op = "push_back"

\* C11: following next from head visits exactly len nodes and ends at the
\* tail node, whose next is absent; following prev from tail visits exactly
\* len nodes and ends at the head node, whose prev is absent.
C11_ChainsHaveLenNodes ==
    /\ Len(ForwardNodes) = len_of(Self)
    /\ Len(BackwardNodes) = len_of(Self)
    /\ len_of(Self) > 0 =>
          /\ IsSome(head) /\ IsSome(tail)
          /\ ForwardNodes[len_of(Self)] = Unwrap(tail)
          /\ ~IsSome(nodes[Unwrap(tail)].next)
          /\ BackwardNodes[len_of(Self)] = Unwrap(head)
          /\ ~IsSome(nodes[Unwrap(head)].prev)

\* C11 witness: a list of three nodes left by pushes and pops at both ends.
C11_Witness ==
    /\ pc = "live"
    /\ len_of(Self) = 3
    /\ Len(ForwardNodes) = 3 /\ Len(BackwardNodes) = 3
    /\ PoppedAtBothEnds /\ PushedAtBothEnds

\* C12: for every node of the list with a successor the successor's prev
\* refers to it, and for every node with a predecessor the predecessor's
\* next refers to it.
C12_LinksAgree ==
    \A n \in ListNodes :
        /\ IsSome(nodes[n].next) =>
              nodes[Unwrap(nodes[n].next)].prev = Some(n)
        /\ IsSome(nodes[n].prev) =>
              nodes[Unwrap(nodes[n].prev)].next = Some(n)

\* C12 witness: a node with both a successor and a predecessor, in a list
\* built at both ends and popped at both ends.
C12_Witness ==
    /\ pc = "live"
    /\ \E n \in ListNodes : IsSome(nodes[n].next) /\ IsSome(nodes[n].prev)
    /\ PoppedAtBothEnds /\ PushedAtBothEnds

\* C13: no node is reachable from itself by one or more next steps, and
\* none by one or more prev steps.
C13_NoCycles ==
    \A n \in 1..Len(nodes) :
        /\ \A i \in 1..Len(Forward(nodes[n].next, Len(nodes) + 1)) :
              Forward(nodes[n].next, Len(nodes) + 1)[i] # n
        /\ \A i \in 1..Len(Backward(nodes[n].prev, Len(nodes) + 1)) :
              Backward(nodes[n].prev, Len(nodes) + 1)[i] # n

\* C13 witness: a list of four linked nodes, built at both ends.
C13_Witness ==
    /\ pc = "live"
    /\ Len(ForwardNodes) = 4
    /\ Len(BackwardNodes) = 4
    /\ PushedAtBothEnds

\* The strong references to node n that the state holds: the head field,
\* the tail field and the next links.
NextHolders(n) == {i \in 1..Len(nodes) : nodes[i].next = Some(n)}
Holders(n) ==
    (IF head = Some(n) THEN 1 ELSE 0) + (IF tail = Some(n) THEN 1 ELSE 0)
        + Cardinality(NextHolders(n))

\* The number of strong paths (of at most fuel links) from the head field
\* and the tail field to node n.
RECURSIVE StrongPaths(_, _)
RECURSIVE SumStrongPaths(_, _)
SumStrongPaths(set, fuel) ==
    IF set = {} THEN 0
    ELSE LET i == CHOOSE x \in set : TRUE
         IN  StrongPaths(i, fuel) + SumStrongPaths(set \ {i}, fuel)
StrongPaths(n, fuel) ==
    IF fuel = 0 THEN 0
    ELSE (IF head = Some(n) THEN 1 ELSE 0) + (IF tail = Some(n) THEN 1 ELSE 0)
            + SumStrongPaths(NextHolders(n), fuel - 1)

\* C14: in a non-empty list the tail node has exactly two strong holders,
\* the tail field and the end of the ownership chain (the head field when
\* len is 1, else the next link of the tail's predecessor), and the node at
\* the end of the chain is the node the tail field refers to.
C14_TailHasTwoHolders ==
    len_of(Self) > 0 =>
        /\ IsSome(tail)
        /\ nodes[Unwrap(tail)].strong = 2
        /\ Holders(Unwrap(tail)) = 2
        /\ Len(ForwardNodes) = len_of(Self)
        /\ ForwardNodes[Len(ForwardNodes)] = Unwrap(tail)
        /\ IF len_of(Self) = 1
           THEN head = tail /\ NextHolders(Unwrap(tail)) = {}
           ELSE /\ head # tail
                /\ NextHolders(Unwrap(tail)) =
                      {ForwardNodes[Len(ForwardNodes) - 1]}

\* C14 witness: both shapes at the end of one run: a list whose tail was
\* reached by pop_back is held by its predecessor's next and by tail.
C14_Witness ==
    /\ pc = "live"
    /\ len_of(Self) = 2
    /\ IsSome(tail)
    /\ nodes[Unwrap(tail)].strong = 2
    /\ LastCall.op = "pop_back" /\ IsSome(LastCall.ret)
    /\ PushedAtBothEnds

\* C15, as stated: exactly one strong path reaches each node of the list
\* from the head field and the tail field.
C15_OneStrongPath ==
    \A n \in ListNodes : StrongPaths(n, Len(nodes) + 1) = 1

\* C15, amended: exactly one strong path reaches each node of the list
\* other than the tail node, and exactly two reach the tail node (the chain
\* from head and the tail field); every node's strong count is the number of
\* head, tail and next references to it, so every prev reference is weak.
C15_OneStrongPathButTail ==
    \A n \in ListNodes :
        /\ StrongPaths(n, Len(nodes) + 1) = IF tail = Some(n) THEN 2 ELSE 1
        /\ nodes[n].strong = Holders(n)

\* C15 witness: a list of three nodes with back-references, built and
\* popped at both ends.
C15_Witness ==
    /\ pc = "live"
    /\ len_of(Self) = 3
    /\ \E n \in ListNodes : tail # Some(n) /\ IsSome(nodes[n].prev)
                            /\ StrongPaths(n, Len(nodes) + 1) = 1
    /\ PoppedAtBothEnds /\ PushedAtBothEnds

\* C16: at every Rc::try_unwrap of pop_front and pop_back the detached node
\* has exactly one strong reference, so the unwrap never panics.
C16_UnwrapNeverFails ==
    /\ \A u \in unwraps : u.strong = 1
    /\ ~panic

\* C16 witness: try_unwrap ran in pops at both ends and in the pop of a
\* single element, three times or more.
C16_Witness ==
    /\ Cardinality(unwraps) >= 3
    /\ PoppedAtBothEnds
    /\ pc = "live"
    /\ len_of(Self) = 0

\* C17: a pop_back of a list of two or more elements finds the tail's
\* back-reference present and its target alive, held once (by the forward
\* chain); that predecessor becomes the tail with its next cleared and head
\* is kept.  pop_back clears head only when the list had exactly one element.
PopBackRelinks ==
    PopBack =>
        /\ len_of(Self) >= 2 =>
              /\ IsSome(tail)
              /\ IsSome(nodes[Unwrap(tail)].prev)
              /\ nodes[Unwrap(nodes[Unwrap(tail)].prev)].strong = 1
              /\ Holders(Unwrap(nodes[Unwrap(tail)].prev)) = 1
              /\ Weak_upgrade(Self, nodes[Unwrap(tail)].prev) =
                    nodes[Unwrap(tail)].prev
              /\ tail' = nodes[Unwrap(tail)].prev
              /\ ~IsSome(nodes'[Unwrap(tail')].next)
              /\ head' = head /\ IsSome(head')
              /\ ret' = Some(nodes[Unwrap(tail)].val)
        /\ (IsSome(head) /\ ~IsSome(head')) => len_of(Self) = 1

C17_PopBackUpgrade == [][PopBackRelinks]_vars

\* C17 witness: a pop_back of a three-element list built at both ends left
\* two elements.
C17_Witness ==
    /\ pc = "live"
    /\ Len(hist) >= 4
    /\ LastCall.op = "pop_back" /\ IsSome(LastCall.ret)
    /\ len_of(Self) = 2
    /\ PushedAtBothEnds

\* C18: the nodes still allocated are exactly the nodes reachable from head
\* by next; the released nodes are exactly the nodes a pop unwrapped, one
\* per pop that returned a value; every prev held by a node of the list
\* refers to an allocated node.
Allocated == {i \in 1..Len(nodes) : nodes[i].strong > 0}

C18_AllocatedIsReachable ==
    /\ Allocated = ListNodes
    /\ {r.node : r \in released} = (1..Len(nodes)) \ Allocated
    /\ {u.node : u \in unwraps} = {r.node : r \in released}
    /\ Cardinality(released) = NumPopsSome + dropSome
    /\ \A n \in ListNodes :
          IsSome(nodes[n].prev) => Unwrap(nodes[n].prev) \in Allocated

\* C18 witness: two nodes were released by pops at both ends and two more
\* are still allocated, the second holding a back-reference.
C18_Witness ==
    /\ pc = "live"
    /\ Cardinality(Allocated) = 2
    /\ Cardinality(released) = 2
    /\ PoppedAtBothEnds
    /\ \E n \in ListNodes : IsSome(nodes[n].prev)

\* C19: push_front on a non-empty list makes the new node the head, with
\* next the old head and the old head's prev the new node, and changes
\* nothing else: tail is the same, the old head keeps its value and next,
\* every other node keeps value, next and prev.  push_back likewise with the
\* ends exchanged.
Untouched(i) ==
    /\ nodes'[i].val = nodes[i].val
    /\ nodes'[i].next = nodes[i].next
    /\ nodes'[i].prev = nodes[i].prev

PushFrame ==
    \A v \in Values :
        /\ (PushFront(v) /\ IsSome(head)) =>
              /\ Len(nodes') = Len(nodes) + 1
              /\ head' = Some(Len(nodes'))
              /\ nodes'[Len(nodes')].val = v
              /\ nodes'[Len(nodes')].next = head
              /\ ~IsSome(nodes'[Len(nodes')].prev)
              /\ nodes'[Unwrap(head)].prev = head'
              /\ nodes'[Unwrap(head)].next = nodes[Unwrap(head)].next
              /\ nodes'[Unwrap(head)].val = nodes[Unwrap(head)].val
              /\ tail' = tail
              /\ \A i \in (1..Len(nodes)) \ {Unwrap(head)} : Untouched(i)
        /\ (PushBack(v) /\ IsSome(tail)) =>
              /\ Len(nodes') = Len(nodes) + 1
              /\ tail' = Some(Len(nodes'))
              /\ nodes'[Len(nodes')].val = v
              /\ nodes'[Len(nodes')].prev = tail
              /\ ~IsSome(nodes'[Len(nodes')].next)
              /\ nodes'[Unwrap(tail)].next = tail'
              /\ nodes'[Unwrap(tail)].prev = nodes[Unwrap(tail)].prev
              /\ nodes'[Unwrap(tail)].val = nodes[Unwrap(tail)].val
              /\ head' = head
              /\ \A i \in (1..Len(nodes)) \ {Unwrap(tail)} : Untouched(i)

C19_PushFrame == [][PushFrame]_vars

\* C19 witness: a push_front onto a list of two or more nodes, after pushes
\* at the back.
C19_Witness ==
    /\ pc = "live"
    /\ Len(hist) >= 3
    /\ LastCall.op = "push_front"
    /\ len_of(Self) >= 3
    /\ PushedAtBothEnds
    /\ head = Some(Len(nodes))
    /\ tail # head

\* C20: no borrow_mut is made of a node that is already borrowed: whenever
\* a borrow is taken while another is held (the neighbour inside the match of
\* pop_front and pop_back) the two nodes differ; no borrow outlives its
\* operation and nothing panics.
C20_NoDoubleBorrow ==
    /\ \A b \in nested : b.outer # b.inner
    /\ borrows = {}
    /\ ~panic

\* C20 witness: pop_front and then pop_back of a three-element list each
\* borrowed the neighbour while the detached node was borrowed.
C20_Witness ==
    /\ Len(hist) = 5
    /\ [i \in 1..5 |-> hist[i].op] =
          <<"push_back", "push_back", "push_back", "pop_front", "pop_back">>
    /\ nested = {[outer |-> 1, inner |-> 2], [outer |-> 3, inner |-> 2]}

====
